---------------------------- MODULE Spec2Model ----------------------------
(***************************************************************************)
(* A model of src/app.py: the furigana web service.                        *)
(*                                                                         *)
(* Strings that the program inspects character by character (token         *)
(* surfaces, readings, markup) are sequences of Unicode code points.       *)
(* Values a caller may omit (a query value, a form field, a JSON member,   *)
(* a token's kana feature) are tagged records: Absent, Null or Str(s).     *)
(*                                                                         *)
(* Three specifications share the variables:                               *)
(*   SpecKana   katakana_to_hiragana applied to bounded strings            *)
(*   SpecAnnot  generate_furigana_html run on bounded token sequences      *)
(*   Spec       the application: start-up, then a stream of requests       *)
(***************************************************************************)
EXTENDS Integers, Sequences, FiniteSets

VARIABLES
    pc,           \* position of the program
    tagger,       \* module global `tagger`: "Tagger" or "None"
    oracle,       \* what the external analyzer returns for each text
    req,          \* flask `request` of the request being served
    text,         \* furigana_api local `text`
    words,        \* generate_furigana_html: the list tagger(text) returned
    i,            \* generate_furigana_html: words consumed by the for loop
    parsed_html,  \* generate_furigana_html local `parsed_html`
    ret,          \* value generate_furigana_html returned
    resp,         \* the response being built / sent
    taggerCalls,  \* calls of tagger(text) made for the current request
    prev,         \* observer: the previous request and its response
    kanaIn,       \* SpecKana: argument of katakana_to_hiragana
    kanaOut       \* SpecKana: its result

vars == <<pc, tagger, oracle, req, text, words, i, parsed_html, ret, resp,
          taggerCalls, prev, kanaIn, kanaOut>>

---------------------------------------------------------------------------
(* Bounds of the model *)

\* longest argument of katakana_to_hiragana in SpecKana
MaxLen == 3

\* longest token sequence in SpecAnnot
MaxTokens == 2

---------------------------------------------------------------------------
(* Program constants *)

\* 0x30A1, first katakana code point converted
KATA_FIRST == 12449

\* 0x30F6, last katakana code point converted
KATA_LAST == 12534

\* 0x60, distance between the katakana and hiragana blocks
KANA_SHIFT == 96

\* 一, first code point of kanji_pattern
KANJI_FIRST == 19968

\* 龯, last code point of kanji_pattern
KANJI_LAST == 40879

---------------------------------------------------------------------------
(* Optional values *)

Absent == [tag |-> "absent", val |-> <<>>]
Null == [tag |-> "null", val |-> <<>>]
Str(s) == [tag |-> "str", val |-> s]

\* Python `x or ""` for x a string or None; an absent key has already been
\* replaced by the caller's default, which is "" or None at every use.
OrEmpty(x) == IF x.tag = "str" THEN x.val ELSE <<>>

\* Python truthiness of an optional string
Truthy(x) == x.tag = "str" /\ x.val # <<>>

---------------------------------------------------------------------------
(* katakana_to_hiragana *)

katakana_char_shifted_only_below_last(c) ==
    IF KATA_FIRST <= c /\ c < KATA_LAST THEN c - KANA_SHIFT ELSE c

\* the generator's element expression, line 28
katakana_char(c) ==
    IF KATA_FIRST <= c /\ c <= KATA_LAST THEN c - KANA_SHIFT ELSE c

RECURSIVE JoinChars(_)
\* ''.join(... for c in s): one output character per input character, in order
JoinChars(s) ==
    IF s = <<>> THEN <<>>
    ELSE <<katakana_char(Head(s))>> \o JoinChars(Tail(s))

katakana_to_hiragana(katakana_text) == JoinChars(OrEmpty(katakana_text))

---------------------------------------------------------------------------
(* The external analyzer (fugashi.Tagger over UniDic) *)

\* A word of the list tagger(text) returns: word.surface and
\* word.feature.kana (the attribute may be missing, None or a string).
Word(surface, kana) == [surface |-> surface, kana |-> kana]

\* What one call tagger(text) does: it returns `words` (raises = "no"),
\* raises instead of returning (raises = "call", words empty), or returns
\* `words` and the loop body fails on the last of them (raises = "iter").
Outcome(ws, raises) == [words |-> ws, raises |-> raises]

\* 漢字 and です, the texts a request can carry
TextKanji == <<28450, 23383>>
TextDesu == <<12391, 12377>>
Texts == {TextKanji, TextDesu}

RECURSIVE SeqsUpTo(_, _)
\* every sequence over S of length at most n
SeqsUpTo(S, n) ==
    IF n = 0 THEN {<<>>}
    ELSE LET shorter == SeqsUpTo(S, n - 1)
         IN  shorter \cup {Append(q, x) : q \in shorter, x \in S}

---------------------------------------------------------------------------
(* generate_furigana_html *)

\* "<ruby><rb>", "</rb><rt>", "</rt></ruby>" of the f-string on line 45
RubyOpen == <<60, 114, 117, 98, 121, 62, 60, 114, 98, 62>>
RubyMid == <<60, 47, 114, 98, 62, 60, 114, 116, 62>>
RubyClose == <<60, 47, 114, 116, 62, 60, 47, 114, 117, 98, 121, 62>>

kanji_pattern_search_misses_last(surface) ==
    \E k \in 1..Len(surface) :
        KANJI_FIRST <= surface[k] /\ surface[k] < KANJI_LAST

\* kanji_pattern.search(surface) with kanji_pattern = [一-龯]
kanji_pattern_search(surface) ==
    \E k \in 1..Len(surface) :
        KANJI_FIRST <= surface[k] /\ surface[k] <= KANJI_LAST

\* getattr(word.feature, "kana", "") or "", converted: line 43
Reading(word) ==
    LET kana == IF word.kana.tag = "absent" THEN Str(<<>>) ELSE word.kana
    IN  katakana_to_hiragana(Str(OrEmpty(kana)))

\* the condition of line 44
NeedsRuby(word) ==
    /\ kanji_pattern_search(word.surface)
    /\ Reading(word) # <<>>
    /\ word.surface # Reading(word)

\* what lines 44-47 append to parsed_html for one word
Rendering(word) ==
    IF NeedsRuby(word)
    THEN RubyOpen \o word.surface \o RubyMid \o Reading(word) \o RubyClose
    ELSE word.surface

\* generate_furigana_html's return value: the message of line 36 or the
\* markup of line 48
Message(m) == [kind |-> "message", msg |-> m, chars |-> <<>>]
Markup(h) == [kind |-> "markup", msg |-> "", chars |-> h]
NoValue == [kind |-> "none", msg |-> "", chars |-> <<>>]

\* tagger(txt): the loaded dictionary decides; the empty text has no words
Analyze(txt) ==
    IF txt \in DOMAIN oracle THEN oracle[txt] ELSE Outcome(<<>>, "no")

\* lines 35-40: the availability test, then the call tagger(text)
gen_enter ==
    /\ pc = "gen_enter"
    /\ IF tagger = "None"
       THEN /\ ret' = Message("MeCab tagger is not available.")
            /\ pc' = "gen_done"
            /\ UNCHANGED <<words, i, parsed_html, taggerCalls>>
       ELSE /\ taggerCalls' = taggerCalls + 1
            /\ parsed_html' = <<>>
            /\ i' = 0
            /\ IF Analyze(text).raises = "call"
               THEN pc' = "gen_raised" /\ UNCHANGED words
               ELSE pc' = "gen_loop" /\ words' = Analyze(text).words
            /\ UNCHANGED ret
    /\ UNCHANGED <<tagger, oracle, req, text, resp, prev, kanaIn, kanaOut>>

gen_word_prepends ==
    /\ pc = "gen_loop"
    /\ i < Len(words)
    /\ IF Analyze(text).raises = "iter" /\ i + 1 = Len(words)
       THEN pc' = "gen_raised" /\ UNCHANGED <<i, parsed_html>>
       ELSE /\ parsed_html' = Rendering(words[i + 1]) \o parsed_html
            /\ i' = i + 1
            /\ UNCHANGED pc
    /\ UNCHANGED <<tagger, oracle, req, text, words, ret, resp, taggerCalls,
                   prev, kanaIn, kanaOut>>

\* lines 40-47: one iteration of the for loop
gen_word ==
    /\ pc = "gen_loop"
    /\ i < Len(words)
    /\ IF Analyze(text).raises = "iter" /\ i + 1 = Len(words)
       THEN pc' = "gen_raised" /\ UNCHANGED <<i, parsed_html>>
       ELSE /\ parsed_html' = parsed_html \o Rendering(words[i + 1])
            /\ i' = i + 1
            /\ UNCHANGED pc
    /\ UNCHANGED <<tagger, oracle, req, text, words, ret, resp, taggerCalls,
                   prev, kanaIn, kanaOut>>

\* line 48: the loop is exhausted
gen_return ==
    /\ pc = "gen_loop"
    /\ i = Len(words)
    /\ ret' = Markup(parsed_html)
    /\ pc' = "gen_done"
    /\ UNCHANGED <<tagger, oracle, req, text, words, i, parsed_html, resp,
                   taggerCalls, prev, kanaIn, kanaOut>>

---------------------------------------------------------------------------
(* Requests and responses *)

\* request.get_json(silent=True): None, a non-dict value, or a dict whose
\* "text" member is missing, null or a string
JsonNone == [kind |-> "none", text |-> Absent]
JsonList == [kind |-> "list", text |-> Absent]
JsonDict(t) == [kind |-> "dict", text |-> t]

OptTexts == {Absent, Str(<<>>)} \cup {Str(t) : t \in Texts}

Request(path, method, args_text, is_json, payload, form_text, form_jt) ==
    [path |-> path, method |-> method, args_text |-> args_text,
     is_json |-> is_json, payload |-> payload,
     form_text |-> form_text, form_jt |-> form_jt]

\* A body has one content type: either JSON (is_json, no form fields) or
\* anything else (form fields, possibly none).
JsonBodies ==
    {<<TRUE, p, Absent, Absent>> :
        p \in {JsonNone, JsonList, JsonDict(Null)}
              \cup {JsonDict(t) : t \in OptTexts}}
FormBodies ==
    {<<FALSE, JsonNone, ft, fj>> : ft \in OptTexts, fj \in OptTexts}

\* requests the routes of lines 51 and 57 accept
ApiRequests ==
    {Request("/furigana", m, a, b[1], b[2], b[3], b[4]) :
        m \in {"OPTIONS", "POST", "GET"}, a \in OptTexts,
        b \in JsonBodies \cup FormBodies}
IndexRequests ==
    {Request("/", "GET", a, FALSE, JsonNone, Absent, Absent) : a \in OptTexts}
Requests == ApiRequests \cup IndexRequests

NoRequest == Request("", "", Absent, FALSE, JsonNone, Absent, Absent)

NoHeaders == [origin |-> "", methods |-> "", headers |-> ""]
CorsHeaders == [origin |-> "*", methods |-> "GET,POST,OPTIONS",
                headers |-> "Content-Type"]

Response(status, kind, key, value, headers) ==
    [status |-> status, kind |-> kind, key |-> key, value |-> value,
     headers |-> headers]
NoResponse == Response(0, "none", "", NoValue, NoHeaders)

\* jsonify({key: value}), status
Jsonify(key, value, status) == Response(status, "json", key, value, NoHeaders)

extract_text_without_form_fallback(r) ==
    IF r.method = "GET"
    THEN OrEmpty(IF r.args_text.tag = "absent" THEN Str(<<>>) ELSE r.args_text)
    ELSE IF r.is_json /\ r.payload.kind = "dict"
         THEN OrEmpty(IF r.payload.text.tag = "absent" THEN Str(<<>>)
                      ELSE r.payload.text)
         ELSE <<>>

\* lines 75-85: the text of a GET or POST request
extract_text(r) ==
    IF r.method = "GET"
    THEN OrEmpty(IF r.args_text.tag = "absent" THEN Str(<<>>) ELSE r.args_text)
    ELSE LET fromJson ==
                 IF r.is_json /\ r.payload.kind = "dict"
                 THEN OrEmpty(IF r.payload.text.tag = "absent" THEN Str(<<>>)
                              ELSE r.payload.text)
                 ELSE <<>>
         IN  IF fromJson # <<>> THEN fromJson
             ELSE IF Truthy(r.form_text) THEN r.form_text.val
             ELSE IF Truthy(r.form_jt) THEN r.form_jt.val
             ELSE <<>>

api_branch_without_missing_check(txt, tg) ==
    IF tg = "None" THEN "unavailable" ELSE "annotate"

api_branch_without_tagger_check(txt, tg) ==
    IF txt = <<>> THEN "missing" ELSE "annotate"

api_branch_tagger_check_first(txt, tg) ==
    IF tg = "None" THEN "unavailable"
    ELSE IF txt = <<>> THEN "missing"
    ELSE "annotate"

\* lines 87-93: which of the three continuations furigana_api takes
api_branch(txt, tg) ==
    IF txt = <<>> THEN "missing"
    ELSE IF tg = "None" THEN "unavailable"
    ELSE "annotate"

except_propagates(tg) ==
    [tagger |-> tg,
     resp |-> Response(500, "html", "", Message("Internal Server Error"),
                       NoHeaders)]

except_drops_tagger(tg) ==
    [tagger |-> "None",
     resp |-> Jsonify("error", Message("Internal error"), 500)]

\* lines 96-98: the except clause logs and answers; it assigns no global
api_except_effect(tg) ==
    [tagger |-> tg,
     resp |-> Jsonify("error", Message("Internal error"), 500)]

add_cors_origin_only(response) ==
    [response EXCEPT !.headers.origin = "*"]

\* lines 107-109: the three header assignments
add_cors(response) ==
    [response EXCEPT !.headers = CorsHeaders]

---------------------------------------------------------------------------
(* The application *)

\* カンジ and デス, the readings UniDic reports for 漢字 and です
WordKanji == Word(TextKanji, Str(<<12459, 12531, 12472>>))
WordDesu == Word(TextDesu, Str(<<12487, 12473>>))

\* what the analyzer may do with a request's text
HttpOutcomes ==
    {Outcome(<<WordKanji, WordDesu>>, "no"), Outcome(<<WordDesu>>, "no"),
     Outcome(<<>>, "call"), Outcome(<<WordKanji, WordDesu>>, "iter")}

NoOracle == [t \in Texts |-> Outcome(<<>>, "call")]

\* observer: nothing recorded
NoPrev == [req |-> NoRequest, resp |-> NoResponse]

\* GET ?text=X, POST JSON {"text": X} and POST form text=X, X possibly
\* missing, each carrying nothing else
Canonical(r) ==
    /\ r.path = "/furigana"
    /\ \/ /\ r.method = "GET"
          /\ ~r.is_json /\ r.form_text = Absent /\ r.form_jt = Absent
       \/ /\ r.method = "POST" /\ r.args_text = Absent
          /\ r.is_json /\ r.payload.kind = "dict" /\ r.payload.text # Null
       \/ /\ r.method = "POST" /\ r.args_text = Absent
          /\ ~r.is_json /\ r.form_jt = Absent

\* the X of a canonical request
CanonText(r) ==
    IF r.method = "GET" THEN r.args_text
    ELSE IF r.is_json THEN r.payload.text
    ELSE r.form_text

\* the observer records the previous exchange when the next request repeats
\* it or is another canonical form of the same text
Related(a, b) ==
    \/ a = b
    \/ Canonical(a) /\ Canonical(b) /\ CanonText(a) = CanonText(b)

\* lines 16-22: the Tagger is built once; its dictionary fixes what every
\* later call returns
Startup ==
    /\ pc = "boot"
    /\ \/ /\ tagger' = "Tagger"
          /\ oracle' \in [Texts -> HttpOutcomes]
       \/ /\ tagger' = "None"
          /\ oracle' = NoOracle
    /\ pc' = "idle"
    /\ UNCHANGED <<req, text, words, i, parsed_html, ret, resp, taggerCalls,
                   prev, kanaIn, kanaOut>>

\* a request arrives and flask routes it (lines 51 and 57)
Receive ==
    /\ pc \in {"idle", "sent"}
    /\ \E r \in Requests :
          /\ req' = r
          /\ pc' = IF r.path = "/" THEN "index" ELSE "furigana_api"
          /\ prev' = IF pc = "sent" /\ Related(req, r)
                     THEN [req |-> req, resp |-> resp]
                     ELSE NoPrev
    /\ text' = <<>>
    /\ words' = <<>>
    /\ i' = 0
    /\ parsed_html' = <<>>
    /\ ret' = NoValue
    /\ resp' = NoResponse
    /\ taggerCalls' = 0
    /\ UNCHANGED <<tagger, oracle, kanaIn, kanaOut>>

\* lines 51-54
index ==
    /\ pc = "index"
    /\ resp' = Response(200, "html", "", Message("index.html"), NoHeaders)
    /\ pc' = "after_request"
    /\ UNCHANGED <<tagger, oracle, req, text, words, i, parsed_html, ret,
                   taggerCalls, prev, kanaIn, kanaOut>>

\* lines 67-72: the preflight answer
api_options ==
    /\ pc = "furigana_api"
    /\ req.method = "OPTIONS"
    /\ resp' = Response(204, "empty", "", NoValue, CorsHeaders)
    /\ pc' = "after_request"
    /\ UNCHANGED <<tagger, oracle, req, text, words, i, parsed_html, ret,
                   taggerCalls, prev, kanaIn, kanaOut>>

\* lines 74-85
api_get_text ==
    /\ pc = "furigana_api"
    /\ req.method # "OPTIONS"
    /\ text' = extract_text(req)
    /\ pc' = "api_checks"
    /\ UNCHANGED <<tagger, oracle, req, words, i, parsed_html, ret, resp,
                   taggerCalls, prev, kanaIn, kanaOut>>

\* lines 87-88
api_missing ==
    /\ pc = "api_checks"
    /\ api_branch(text, tagger) = "missing"
    /\ resp' = Jsonify("error", Message("Missing 'text'"), 400)
    /\ pc' = "after_request"
    /\ UNCHANGED <<tagger, oracle, req, text, words, i, parsed_html, ret,
                   taggerCalls, prev, kanaIn, kanaOut>>

\* lines 90-91
api_unavailable ==
    /\ pc = "api_checks"
    /\ api_branch(text, tagger) = "unavailable"
    /\ resp' = Jsonify("error", Message("MeCab tagger not available on server"),
                       500)
    /\ pc' = "after_request"
    /\ UNCHANGED <<tagger, oracle, req, text, words, i, parsed_html, ret,
                   taggerCalls, prev, kanaIn, kanaOut>>

\* lines 93-94: enter the try block and call generate_furigana_html(text)
api_call ==
    /\ pc = "api_checks"
    /\ api_branch(text, tagger) = "annotate"
    /\ pc' = "gen_enter"
    /\ UNCHANGED <<tagger, oracle, req, text, words, i, parsed_html, ret,
                   resp, taggerCalls, prev, kanaIn, kanaOut>>

\* line 95
api_result ==
    /\ pc = "gen_done"
    /\ resp' = Jsonify("result", ret, 200)
    /\ pc' = "after_request"
    /\ UNCHANGED <<tagger, oracle, req, text, words, i, parsed_html, ret,
                   taggerCalls, prev, kanaIn, kanaOut>>

\* lines 96-98
api_except ==
    /\ pc = "gen_raised"
    /\ tagger' = api_except_effect(tagger).tagger
    /\ resp' = api_except_effect(tagger).resp
    /\ pc' = "after_request"
    /\ UNCHANGED <<oracle, req, text, words, i, parsed_html, ret,
                   taggerCalls, prev, kanaIn, kanaOut>>

\* lines 101-110: the after_request hook, then the response leaves
add_cors_headers ==
    /\ pc = "after_request"
    /\ resp' = add_cors(resp)
    /\ pc' = "sent"
    /\ UNCHANGED <<tagger, oracle, req, text, words, i, parsed_html, ret,
                   taggerCalls, prev, kanaIn, kanaOut>>

Init ==
    /\ pc = "boot"
    /\ tagger = "unset"
    /\ oracle = NoOracle
    /\ req = NoRequest
    /\ text = <<>>
    /\ words = <<>>
    /\ i = 0
    /\ parsed_html = <<>>
    /\ ret = NoValue
    /\ resp = NoResponse
    /\ taggerCalls = 0
    /\ prev = NoPrev
    /\ kanaIn = Absent
    /\ kanaOut = <<>>

Next ==
    \/ Startup
    \/ Receive
    \/ index
    \/ api_options
    \/ api_get_text
    \/ api_missing
    \/ api_unavailable
    \/ api_call
    \/ gen_enter
    \/ gen_word
    \/ gen_return
    \/ api_result
    \/ api_except
    \/ add_cors_headers

Spec == Init /\ [][Next]_vars

---------------------------------------------------------------------------
(* generate_furigana_html alone, on bounded token sequences *)

\* surfaces: 漢字, です, お茶, 一か, and the code points at and next to
\* both ends of kanji_pattern's range
Surfaces ==
    {TextKanji, TextDesu, <<12362, 33590>>, <<KANJI_FIRST, 12363>>,
     <<KANJI_FIRST>>, <<KANJI_LAST>>, <<KANJI_FIRST - 1>>, <<KANJI_LAST + 1>>}

\* the kana feature: missing, None, "", カ, 一カ
Kanas ==
    {Absent, Null, Str(<<>>), Str(<<12459>>), Str(<<KANJI_FIRST, 12459>>)}

AnnotWords == {Word(s, k) : s \in Surfaces, k \in Kanas}

AnnotOutcomes ==
    {Outcome(ws, "no") : ws \in SeqsUpTo(AnnotWords, MaxTokens)}
    \cup {Outcome(<<>>, "call")}
    \cup {Outcome(<<w>>, "iter") : w \in AnnotWords}

InitAnnot ==
    /\ pc = "gen_enter"
    /\ \/ /\ tagger = "Tagger"
          /\ \E o \in AnnotOutcomes : oracle = [t \in Texts |-> o]
       \/ /\ tagger = "None"
          /\ oracle = NoOracle
    /\ req = NoRequest
    /\ text = TextKanji
    /\ words = <<>>
    /\ i = 0
    /\ parsed_html = <<>>
    /\ ret = NoValue
    /\ resp = NoResponse
    /\ taggerCalls = 0
    /\ prev = NoPrev
    /\ kanaIn = Absent
    /\ kanaOut = <<>>

NextAnnot ==
    \/ gen_enter
    \/ gen_word
    \/ gen_return

SpecAnnot == InitAnnot /\ [][NextAnnot]_vars

---------------------------------------------------------------------------
(* katakana_to_hiragana alone, on bounded strings *)

\* ゠ (one below the range), ァ, ヶ (its ends), ヷ (one above), あ, 漢, A
KanaChars ==
    {KATA_FIRST - 1, KATA_FIRST, KATA_LAST, KATA_LAST + 1, 12354, 28450, 65}

KanaInputs == {Null} \cup {Str(s) : s \in SeqsUpTo(KanaChars, MaxLen)}

InitKana ==
    /\ pc = "kana_call"
    /\ kanaIn \in KanaInputs
    /\ kanaOut = <<>>
    /\ tagger = "unset"
    /\ oracle = NoOracle
    /\ req = NoRequest
    /\ text = <<>>
    /\ words = <<>>
    /\ i = 0
    /\ parsed_html = <<>>
    /\ ret = NoValue
    /\ resp = NoResponse
    /\ taggerCalls = 0
    /\ prev = NoPrev

\* one call katakana_to_hiragana(kanaIn)
kana_call ==
    /\ pc = "kana_call"
    /\ kanaOut' = katakana_to_hiragana(kanaIn)
    /\ pc' = "kana_done"
    /\ UNCHANGED <<tagger, oracle, req, text, words, i, parsed_html, ret,
                   resp, taggerCalls, prev, kanaIn>>

NextKana == kana_call

SpecKana == InitKana /\ [][NextKana]_vars

---------------------------------------------------------------------------
(* Properties of katakana_to_hiragana (SpecKana) *)

KanaArg == IF kanaIn.tag = "str" THEN kanaIn.val ELSE <<>>

\* C1: katakana_to_hiragana keeps length and order; a character in
\* U+30A1..U+30F6 comes out 0x60 lower, every other character (U+30A0 and
\* U+30F7 among them) comes out unchanged; "" and None give "".
C1_KanaCharByChar ==
    pc = "kana_done" =>
        /\ Len(kanaOut) = Len(KanaArg)
        /\ \A k \in 1..Len(KanaArg) :
              IF 12449 <= KanaArg[k] /\ KanaArg[k] <= 12534
              THEN kanaOut[k] = KanaArg[k] - 96
              ELSE kanaOut[k] = KanaArg[k]
        /\ (kanaIn = Null \/ kanaIn = Str(<<>>)) => kanaOut = <<>>

\* both ends of the range and both neighbours have been converted
C1_Witness ==
    /\ pc = "kana_done"
    /\ kanaIn = Str(<<12448, 12449, 12534>>)
    /\ kanaOut = <<12448, 12353, 12438>>

---------------------------------------------------------------------------
(* Properties of generate_furigana_html (SpecAnnot) *)

HasIdeograph(surface) ==
    \E k \in 1..Len(surface) : surface[k] \in 19968..40879

Hiragana(word) ==
    katakana_to_hiragana(IF word.kana.tag = "str" THEN word.kana ELSE Null)

Annotated(word) ==
    /\ HasIdeograph(word.surface)
    /\ Hiragana(word) # <<>>
    /\ Hiragana(word) # word.surface

\* <ruby><rb>surface</rb><rt>reading</rt></ruby>
RubyWrapper(surface, reading) ==
    <<60, 114, 117, 98, 121, 62, 60, 114, 98, 62>> \o surface
    \o <<60, 47, 114, 98, 62, 60, 114, 116, 62>> \o reading
    \o <<60, 47, 114, 116, 62, 60, 47, 114, 117, 98, 121, 62>>

\* C2: each loop iteration appends the ruby wrapper exactly when the surface
\* has a character in U+4E00..U+9FAF and the hiragana reading is non-empty
\* and differs from the surface; otherwise it appends the surface alone.
C2_RubyIffEligible ==
    [][(pc = "gen_loop" /\ i' = i + 1) =>
          LET word == words[i + 1]
          IN  IF Annotated(word)
              THEN parsed_html' =
                       parsed_html \o RubyWrapper(word.surface, Hiragana(word))
              ELSE parsed_html' = parsed_html \o word.surface]_vars

\* a word that got the wrapper, then one with an ideograph whose converted
\* reading equals its surface and got none
C2_Witness ==
    /\ pc = "gen_loop"
    /\ i = 2
    /\ Annotated(words[1])
    /\ HasIdeograph(words[2].surface)
    /\ Hiragana(words[2]) = words[2].surface
    /\ words[2].kana.val # words[2].surface

Piece(word) ==
    IF Annotated(word) THEN RubyWrapper(word.surface, Hiragana(word))
    ELSE word.surface

RECURSIVE PieceStart(_, _)
\* number of characters the pieces of ws[1..k-1] take
PieceStart(ws, k) ==
    IF k <= 1 THEN 0 ELSE PieceStart(ws, k - 1) + Len(Piece(ws[k - 1]))

\* `out` is the pieces of ws[1..n], each in its place, and nothing else
PiecesInOrder(out, ws, n) ==
    /\ Len(out) = PieceStart(ws, n + 1)
    /\ \A k \in 1..n : \A j \in 1..Len(Piece(ws[k])) :
          out[PieceStart(ws, k) + j] = Piece(ws[k])[j]

\* C3: the markup is the renderings of the words, one per word, in word
\* order: after i iterations parsed_html holds the first i renderings, the
\* returned string holds all of them, and no words give the empty string.
C3_ConcatInOrder ==
    /\ pc = "gen_loop" => PiecesInOrder(parsed_html, words, i)
    /\ (pc = "gen_done" /\ ret.kind = "markup") =>
          /\ i = Len(words)
          /\ PiecesInOrder(ret.chars, words, Len(words))
          /\ words = <<>> => ret.chars = <<>>

\* two different words, one wrapped and one plain, were returned as markup
C3_Witness ==
    /\ pc = "gen_done"
    /\ ret.kind = "markup"
    /\ Len(words) = 2
    /\ Annotated(words[1])
    /\ ~Annotated(words[2])
    /\ ret.chars = Piece(words[1]) \o words[2].surface

---------------------------------------------------------------------------
(* Properties of the application (Spec) *)

\* a GET or POST request to /furigana
TextRequest ==
    req.path = "/furigana" /\ req.method \in {"GET", "POST"}

\* the request carries a non-empty text where its method looks for one: the
\* query for GET; the JSON object's "text" or a form field for POST
SuppliesText(r) ==
    IF r.method = "GET" THEN Truthy(r.args_text)
    ELSE \/ r.is_json /\ r.payload.kind = "dict" /\ Truthy(r.payload.text)
         \/ Truthy(r.form_text)
         \/ Truthy(r.form_jt)

JsonError(status) ==
    resp.status = status /\ resp.kind = "json" /\ resp.key = "error"

JsonResult ==
    resp.status = 200 /\ resp.kind = "json" /\ resp.key = "result"

\* C4: a GET or POST request to /furigana without text is answered 400 with
\* a JSON error and no result, and the tokenizer is never called for it.
C4_MissingText400 ==
    (TextRequest /\ ~SuppliesText(req)) =>
        /\ taggerCalls = 0
        /\ pc \notin {"gen_enter", "gen_loop", "gen_done", "gen_raised"}
        /\ pc \in {"after_request", "sent"} => JsonError(400)

\* POST with the JSON body {} while the tokenizer is available
C4_Witness ==
    /\ pc = "sent"
    /\ tagger = "Tagger"
    /\ req.method = "POST"
    /\ req.is_json
    /\ req.payload = JsonDict(Absent)
    /\ req.args_text = Absent
    /\ JsonError(400)

\* C5: with the tokenizer unavailable, a GET or POST request to /furigana
\* with text is answered 500 with a JSON error; no request gets 200 with a
\* result; generate_furigana_html is not entered and every answer is JSON.
C5_Unavailable500 ==
    (tagger = "None" /\ TextRequest) =>
        /\ pc \notin {"gen_enter", "gen_loop", "gen_done", "gen_raised"}
        /\ pc \in {"after_request", "sent"} =>
              /\ ~JsonResult
              /\ resp.kind = "json"
              /\ SuppliesText(req) => JsonError(500)

\* text was supplied, the tokenizer is unavailable, the answer is 500
C5_Witness ==
    /\ pc = "sent"
    /\ tagger = "None"
    /\ TextRequest
    /\ SuppliesText(req)
    /\ JsonError(500)
    /\ resp.value = Message("MeCab tagger not available on server")

\* C6: a failure of the tokenizer call or of the loop body ends in 500 with
\* a JSON error, and every GET or POST request to /furigana ends in exactly
\* one of 200 with result, 400 with error, 500 with error.
C6_FailuresCaught ==
    (TextRequest /\ pc \in {"after_request", "sent"}) =>
        /\ JsonResult \/ JsonError(400) \/ JsonError(500)
        /\ (taggerCalls > 0 /\ Analyze(text).raises # "no") => JsonError(500)

\* the loop body failed on a word and the answer is the JSON 500
C6_Witness ==
    /\ pc = "sent"
    /\ TextRequest
    /\ taggerCalls = 1
    /\ Analyze(text).raises = "iter"
    /\ JsonError(500)

\* C7: every response that leaves carries Access-Control-Allow-Origin: *
\* and non-empty Access-Control-Allow-Methods and -Headers.
C7_CorsOnEveryResponse ==
    pc = "sent" =>
        /\ resp.headers.origin = "*"
        /\ resp.headers.methods # ""
        /\ resp.headers.headers # ""

\* the index page left with the headers
C7_Witness ==
    /\ pc = "sent"
    /\ req.path = "/"
    /\ resp.status = 200
    /\ resp.headers = CorsHeaders

\* C8: GET ?text=T, POST JSON {"text": T} and POST form text=T get the same
\* status and the same body, for every T, empty and missing included, and
\* either tokenizer state.
C8_ThreeFormsAgree ==
    (/\ pc = "sent"
     /\ prev # NoPrev
     /\ Canonical(req)
     /\ Canonical(prev.req)
     /\ CanonText(req) = CanonText(prev.req)) =>
        /\ resp.status = prev.resp.status
        /\ resp.kind = prev.resp.kind
        /\ resp.key = prev.resp.key
        /\ resp.value = prev.resp.value

\* a form POST answered 200 right after the GET of the same text
C8_Witness ==
    /\ pc = "sent"
    /\ prev.req.method = "GET"
    /\ req.method = "POST"
    /\ ~req.is_json
    /\ Canonical(req)
    /\ Canonical(prev.req)
    /\ CanonText(req) = CanonText(prev.req)
    /\ JsonResult

\* C9: after start-up no step changes the tokenizer handle, and a request
\* that repeats the previous one gets the identical response.
C9_NoStateBetweenRequests ==
    [][/\ pc # "boot" => tagger' = tagger /\ oracle' = oracle
       /\ (pc' = "sent" /\ prev'.req = req') => resp' = prev'.resp]_vars

\* a request whose annotation failed was repeated and answered again
C9_Witness ==
    /\ pc = "sent"
    /\ prev.req = req
    /\ TextRequest
    /\ taggerCalls = 1
    /\ Analyze(text).raises = "call"
    /\ tagger = "Tagger"

\* C10: OPTIONS is answered 204 with an empty body before the text or the
\* tokenizer is looked at; otherwise a request without text gets 400 even
\* when the tokenizer is unavailable, the unavailability 500 is given only
\* to a request with text, and annotation starts only with text and a
\* tokenizer.
C10_CheckOrder ==
    req.path = "/furigana" =>
        /\ req.method = "OPTIONS" =>
              /\ pc \in {"furigana_api", "after_request", "sent"}
              /\ text = <<>>
              /\ taggerCalls = 0
              /\ pc # "furigana_api" =>
                    resp.status = 204 /\ resp.kind = "empty"
        /\ (req.method # "OPTIONS" /\ pc \in {"after_request", "sent"}) =>
              /\ ~SuppliesText(req) => JsonError(400)
              /\ resp.value = Message("MeCab tagger not available on server") =>
                    JsonError(500) /\ SuppliesText(req) /\ tagger = "None"
        /\ (pc \in {"gen_enter", "gen_loop", "gen_done", "gen_raised"}
            \/ taggerCalls > 0) =>
              SuppliesText(req) /\ tagger = "Tagger"

\* no text and no tokenizer: the answer is the 400, not the 500
C10_Witness ==
    /\ pc = "sent"
    /\ tagger = "None"
    /\ TextRequest
    /\ ~SuppliesText(req)
    /\ JsonError(400)
    /\ req.args_text # req.form_text

===========================================================================
